---- MODULE Spec2Model ----
(***************************************************************************)
(* ExecService (src/ts/ssh-tcp/services/execService.ts): the session-      *)
(* request handler (start / cancel of a forwarded endpoint) and the        *)
(* channel-open negotiation handler of one SSH session.                    *)
(*                                                                         *)
(* A handler is modelled step by step, one action per stretch of code      *)
(* between two awaits.  The session dispatches its callbacks one at a      *)
(* time, so at most one handler is in progress (pc # "idle").              *)
(*                                                                         *)
(* Spec is the responder role (session requests, channel-open attempts);   *)
(* SpecCancel adds a cancellation token that fires during startExec or     *)
(* cancelExec; SpecOpen is the initiator role (openChannel).               *)
(*                                                                         *)
(* A value of type T | null | undefined is a sequence: <<>> for            *)
(* null/undefined, <<v>> for the value v.                                  *)
(***************************************************************************)
EXTENDS Integers, Sequences, FiniteSets, TLC

\* ---------------------------------------------------------------- bounds
MaxRequests == 2
MaxChannels == 2

\* ------------------------------------------------------------- constants
execRequestType == "exec"
cancelExecRequestType == "cancel-exec"
execChannelType == "exec"

\* A request type the service was never activated for.
OtherRequestType == "shell"
\* A channel type other than the forwarding channel type.
OtherChannelType == "session"

RequestTypes == {execRequestType, cancelExecRequestType, OtherRequestType}
ChannelTypes == {execChannelType, OtherChannelType}
Addresses == {"0.0.0.0", "127.0.0.1"}
MaxPort == 65535
RawPorts == {0, 5001, MaxPort + 1}
Channels == 1..MaxChannels

\* The raw session-request payloads: one without the required fields, and
\* every (addressToBind, port) pair.
RawRequests ==
    {[present |-> FALSE, addressToBind |-> "", port |-> 0]}
        \cup [present : {TRUE}, addressToBind : Addresses, port : RawPorts]

\* request.request.convertTo(new PortForwardRequestMessage()) succeeds iff
\* the required fields are there and the port is in range; otherwise it throws.
Decodable(raw) == raw.present /\ raw.port \in 0..MaxPort

\* ---------------------------------------------------------------- messages
SessionRequestFailureMessage == [type |-> "SessionRequestFailureMessage", payload |-> <<>>]
SessionRequestSuccessMessage == [type |-> "SessionRequestSuccessMessage", payload |-> <<>>]
PortForwardSuccessMessage(port) == [type |-> "PortForwardSuccessMessage", payload |-> <<port>>]

IsSuccessMessage(m) ==
    m.type \in {"SessionRequestSuccessMessage", "PortForwardSuccessMessage"}
IsFailureMessage(m) == m.type = "SessionRequestFailureMessage"

\* The deployment either allows or disables remote-initiated forwarding channels.
RemoteForwardingSettings == BOOLEAN

\* SshChannelOpenFailureReason
FailureReasons == {"none", "administrativelyProhibited", "connectFailed", "unknownChannelType"}
RemoteDisabledMessage == "The session has disabled connections to non-forwarded ports."
BaseDescriptions == {<<>>, <<"rejected by the channelOpening event handler">>}
\* Every verdict the generic base check can leave on the event args it is given.
BaseVerdicts == [failureReason : FailureReasons, failureDescription : BaseDescriptions]

VARIABLES
    pc,                    \* position of the handler in progress, or "idle"
    request,               \* the session request being handled
    args,                  \* the SshRequestEventArgs handed to the base handler
    called,                \* which of startExec / cancelExec this handler invoked
    handled,               \* the session requests handled so far, with their outcome
    remoteForwardedPorts,  \* the grant table (forwarded ports collection)
    forwardedChannels,     \* channels associated with a grant
    remoteForwardingDisabled, \* deployment setting: remote-initiated forwarding off
    opening,               \* the channel-opening event args (original request)
    portForwardRequest,    \* the event args handed to the base channel-opening check
    consulted,             \* what the channel-opening handler has read or called
    cancellation,          \* where the handler in progress was when its token fired, or ""
    openCall               \* the last call of openChannel: arguments, message, outcome

vars == <<pc, request, args, called, handled, remoteForwardedPorts, forwardedChannels,
          remoteForwardingDisabled, opening, portForwardRequest, consulted,
          cancellation, openCall>>

sessionVars == <<request, args, called, handled, cancellation>>
channelVars == <<opening, portForwardRequest, consulted>>
grantVars == <<remoteForwardedPorts, forwardedChannels>>

NoRequest == [requestType |-> "", addressToBind |-> "", port |-> 0, grantsBefore |-> {},
              channelsBefore |-> {}]
NoArgs == [isAuthorized |-> FALSE]
NoOpening == [channelType |-> "", isRemoteRequest |-> FALSE, channel |-> 0,
              failureReason |-> "none", failureDescription |-> <<>>, returned |-> FALSE]
NoVerdict == [failureReason |-> "none", failureDescription |-> <<>>]
\* new PortForwardChannelOpenMessage(): no field assigned yet
NewPortForwardChannelOpenMessage ==
    [channelType |-> "", originatorIPAddress |-> "", originatorPort |-> 0,
     host |-> "", port |-> 0]
NoOpenCall == [channelType |-> "", originatorIPAddress |-> <<>>, originatorPort |-> <<>>,
               host |-> "", port |-> 0,
               openMessage |-> NewPortForwardChannelOpenMessage, outcome |-> ""]

Init ==
    /\ pc = "idle"
    /\ request = NoRequest
    /\ args = NoArgs
    /\ called = {}
    /\ handled = <<>>
    /\ remoteForwardedPorts = {}
    /\ forwardedChannels = {}
    /\ remoteForwardingDisabled \in RemoteForwardingSettings
    /\ opening = NoOpening
    /\ portForwardRequest = NoVerdict
    /\ consulted = {}
    /\ cancellation = ""
    /\ openCall = NoOpenCall

\* ------------------------------------------------ onSessionRequest, pieces

\* IsExpectedRequestType without the test of lines 72-77.
IsExpectedRequestType_Any(requestType) == TRUE

\* lines 72-75: the request type is one the handler accepts
IsExpectedRequestType(requestType) ==
    requestType = execRequestType \/ requestType = cancelExecRequestType

\* startExec allocating a port, whatever its cancellation token says.
startExec_Allocates(localIPAddress, localPort) ==
    <<IF localPort = 0 THEN 5001 ELSE localPort>>

\* lines 128-134: the port allocation; null is <<>>
startExec(localIPAddress, localPort) == <<>>

\* lines 136-142: the cancel operation
cancelExec(localIPAddress, localPort) == TRUE

\* Dispatch without the test of line 92.
Dispatch_Ungated(isAuthorized, requestType) ==
    IF requestType = execRequestType THEN "startExec"
    ELSE IF requestType = cancelExecRequestType THEN "cancelExec"
    ELSE "respond"

\* lines 92-111: what the handler awaits next once the base handler has
\* returned: the allocation, the cancel operation, or nothing (it goes
\* straight to line 113).
Dispatch(isAuthorized, requestType) ==
    IF isAuthorized
    THEN IF requestType = execRequestType THEN "startExec"
         ELSE IF requestType = cancelExecRequestType THEN "cancelExec"
         ELSE "respond"
    ELSE "respond"

\* lines 101-105: response after the allocation returned (or threw: null)
StartResponse(localForwardedPort) ==
    IF localForwardedPort # <<>>
    THEN <<PortForwardSuccessMessage(localForwardedPort[1])>>
    ELSE <<>>

\* CancelResponse building the message of the start branch (lines 102-104).
CancelResponse_WithPort(cancelled) ==
    IF cancelled THEN <<PortForwardSuccessMessage(0)>> ELSE <<>>

\* lines 107-109: response after the cancel operation returned
CancelResponse(cancelled) ==
    IF cancelled THEN <<SessionRequestSuccessMessage>> ELSE <<>>

\* line 113: response ?? new SessionRequestFailureMessage()
ResponsePromise(response) ==
    IF response # <<>> THEN response[1] ELSE SessionRequestFailureMessage

\* lines 117-125: the ForwardedPort built after the response is set is
\* dropped (the addPort call is commented out): the grant table is as before.
PortsAfterResponse(ports, response) == ports

\* An entry of the log of handled requests.
Replied(req, isAuthorized, invoked, response, ports, channels) ==
    [requestType |-> req.requestType, addressToBind |-> req.addressToBind,
     port |-> req.port, isAuthorized |-> isAuthorized, outcome |-> "replied",
     error |-> "", responsePromise |-> <<ResponsePromise(response)>>,
     called |-> invoked,
     reached |-> {"convertTo", "super.onSessionRequest", "responsePromise"},
     cancelledAt |-> cancellation,
     grantsBefore |-> req.grantsBefore, grantsAfter |-> ports,
     channelsBefore |-> req.channelsBefore, channelsAfter |-> channels]

Threw(requestType, error, steps, ports, channels) ==
    [requestType |-> requestType, addressToBind |-> "", port |-> 0,
     isAuthorized |-> FALSE, outcome |-> "threw", error |-> error,
     responsePromise |-> <<>>, called |-> {},
     reached |-> steps, cancelledAt |-> "",
     grantsBefore |-> ports, grantsAfter |-> ports,
     channelsBefore |-> channels, channelsAfter |-> channels]

\* lines 113-126: set the response promise, (not) register the port, return.
Respond(isAuthorized, response, invoked) ==
    /\ remoteForwardedPorts' = PortsAfterResponse(remoteForwardedPorts, response)
    /\ handled' = Append(handled,
            Replied(request, isAuthorized, invoked, response,
                    remoteForwardedPorts', forwardedChannels))
    /\ pc' = "idle"
    /\ request' = NoRequest
    /\ args' = NoArgs
    /\ called' = {}
    /\ cancellation' = ""

\* ------------------------------------------------ onSessionRequest, actions

\* lines 67-89: type check, decode, build args, call the base handler.
OnSessionRequest(requestType, raw) ==
    /\ pc = "idle"
    /\ Len(handled) < MaxRequests
    /\ IF ~IsExpectedRequestType(requestType)
       THEN /\ handled' = Append(handled, Threw(requestType, "UnexpectedRequestType", {},
                                                remoteForwardedPorts, forwardedChannels))
            /\ UNCHANGED <<pc, request, args, called>>
       ELSE IF ~Decodable(raw)
       THEN /\ handled' = Append(handled, Threw(requestType, "DecodeError", {"convertTo"},
                                                remoteForwardedPorts, forwardedChannels))
            /\ UNCHANGED <<pc, request, args, called>>
       ELSE /\ request' = [requestType |-> requestType,
                           addressToBind |-> raw.addressToBind, port |-> raw.port,
                           grantsBefore |-> remoteForwardedPorts,
                           channelsBefore |-> forwardedChannels]
            /\ args' = NoArgs
            /\ called' = {}
            /\ pc' = "super.onSessionRequest"
            /\ UNCHANGED handled
    /\ cancellation' = ""
    /\ UNCHANGED <<grantVars, remoteForwardingDisabled, channelVars, openCall>>

\* line 89 returns: the authorization gate has set args.isAuthorized.
\* lines 91-113: an unauthorized request is answered at once.
SuperOnSessionRequest(isAuthorized) ==
    /\ pc = "super.onSessionRequest"
    /\ LET next == Dispatch(isAuthorized, request.requestType) IN
       IF next = "respond"
       THEN Respond(isAuthorized, <<>>, {})
       ELSE /\ pc' = next
            /\ args' = [isAuthorized |-> isAuthorized]
            /\ called' = {next}
            /\ UNCHANGED <<request, handled, remoteForwardedPorts, cancellation>>
    /\ UNCHANGED <<forwardedChannels, remoteForwardingDisabled, channelVars, openCall>>

\* lines 94-105, 113-126: the allocation returns.
StartExecReturn ==
    /\ pc = "startExec"
    /\ Respond(args.isAuthorized,
               StartResponse(startExec(request.addressToBind, request.port)), called)
    /\ UNCHANGED <<forwardedChannels, remoteForwardingDisabled, channelVars, openCall>>

\* lines 106-110, 113-126: the cancel operation returns.
CancelExecReturn ==
    /\ pc = "cancelExec"
    /\ Respond(args.isAuthorized,
               CancelResponse(cancelExec(request.addressToBind, request.port)), called)
    /\ UNCHANGED <<forwardedChannels, remoteForwardingDisabled, channelVars, openCall>>

\* The cancellation token handed to startExec (line 96) or cancelExec
\* (line 107) fires while the handler is suspended in that call.  Neither
\* function reads its token (lines 128-142), so only the fact is recorded.
Cancel ==
    /\ pc \in {"startExec", "cancelExec"}
    /\ cancellation = ""
    /\ cancellation' = pc
    /\ UNCHANGED <<pc, request, args, called, handled, grantVars,
                   remoteForwardingDisabled, channelVars, openCall>>

\* ------------------------------------------------ onChannelOpening, pieces

\* line 151: the channel type is the forwarding channel type
IsExecChannelType(channelType) == channelType = execChannelType

\* RejectChannelType with the reason of line 165.
RejectChannelType_Prohibited(req) ==
    [req EXCEPT !.failureReason = "administrativelyProhibited", !.returned = TRUE]

\* lines 152-153: reject a channel type the service does not handle
RejectChannelType(req) ==
    [req EXCEPT !.failureReason = "unknownChannelType", !.returned = TRUE]

\* lines 156-157: the guard on remote-initiated opens
RemoteGuard(isRemoteRequest, channelType) ==
    isRemoteRequest /\ channelType # execChannelType

\* lines 158-166: reject a remote-initiated open
RejectRemote(req) ==
    [req EXCEPT !.failureDescription = <<RemoteDisabledMessage>>,
                !.failureReason = "administrativelyProhibited",
                !.returned = TRUE]

\* PropagateVerdict without line 184.
PropagateVerdict_ReasonOnly(req, checked) ==
    [req EXCEPT !.failureReason = checked.failureReason, !.returned = TRUE]

\* lines 183-184: copy the base check's verdict to the original request
PropagateVerdict(req, checked) ==
    [req EXCEPT !.failureReason = checked.failureReason,
                !.failureDescription = checked.failureDescription,
                !.returned = TRUE]

\* lines 185-188: the accepted remote-origin channel is associated with
\* nothing (both branches of the test return): the associations are as before.
ChannelsAfterOpening(channels, req) == channels

\* ------------------------------------------------ onChannelOpening, actions

\* lines 144-181: the guards, then the call of the base check.
OnChannelOpening(channelType, isRemoteRequest, channel) ==
    /\ pc = "idle"
    /\ LET req == [channelType |-> channelType, isRemoteRequest |-> isRemoteRequest,
                   channel |-> channel, failureReason |-> "none",
                   failureDescription |-> <<>>, returned |-> FALSE] IN
       IF ~IsExecChannelType(channelType)
       THEN /\ opening' = RejectChannelType(req)
            /\ consulted' = {}
            /\ pc' = "idle"
       ELSE IF RemoteGuard(isRemoteRequest, channelType)
       THEN /\ opening' = RejectRemote(req)
            /\ consulted' = {"isRemoteRequest"}
            /\ pc' = "idle"
       ELSE /\ opening' = req
            /\ consulted' = {"isRemoteRequest", "super.onChannelOpening"}
            /\ pc' = "super.onChannelOpening"
    /\ portForwardRequest' = NoVerdict
    /\ UNCHANGED <<sessionVars, grantVars, remoteForwardingDisabled, openCall>>

\* line 181 returns: the base check has left its verdict on the args it
\* was given.  lines 183-188: copy it and return.
SuperOnChannelOpening(verdict) ==
    /\ pc = "super.onChannelOpening"
    /\ portForwardRequest' = verdict
    /\ opening' = PropagateVerdict(opening, portForwardRequest')
    /\ forwardedChannels' = ChannelsAfterOpening(forwardedChannels, opening')
    /\ pc' = "idle"
    /\ UNCHANGED <<sessionVars, remoteForwardedPorts, remoteForwardingDisabled, consulted,
                   openCall>>

\* ------------------------------------------------ openChannel

OriginatorAddresses == {<<>>, <<"127.0.0.1">>, <<"::1">>}
OriginatorPorts == {<<>>, <<50000>>}
Hosts == {"localhost", "10.0.0.7"}
TargetPorts == {22, 5001}
\* session.openChannel either returns a channel or throws.
OpenOutcomes == {"opened", "threw"}

\* lines 200-204: the channel-open message built from the arguments; the
\* port argument is assigned to no field.
OpenMessage(channelType, originatorIPAddress, originatorPort, host, port) ==
    [NewPortForwardChannelOpenMessage EXCEPT
        !.channelType = channelType,
        !.originatorIPAddress =
            IF originatorIPAddress # <<>> THEN originatorIPAddress[1] ELSE "",
        !.originatorPort = IF originatorPort # <<>> THEN originatorPort[1] ELSE 0,
        !.host = host]

\* lines 191-233: build the message, submit it to the session, return the
\* channel or rethrow; nothing is recorded for the channel (lines 227-230).
OpenChannel(channelType, originatorIPAddress, originatorPort, host, port, outcome) ==
    /\ pc = "idle"
    /\ openCall' = [channelType |-> channelType,
                    originatorIPAddress |-> originatorIPAddress,
                    originatorPort |-> originatorPort,
                    host |-> host, port |-> port,
                    openMessage |-> OpenMessage(channelType, originatorIPAddress,
                                                originatorPort, host, port),
                    outcome |-> outcome]
    /\ UNCHANGED <<pc, sessionVars, grantVars, remoteForwardingDisabled, channelVars>>

Next ==
    \/ \E requestType \in RequestTypes, raw \in RawRequests :
            OnSessionRequest(requestType, raw)
    \/ \E isAuthorized \in BOOLEAN : SuperOnSessionRequest(isAuthorized)
    \/ StartExecReturn
    \/ CancelExecReturn
    \/ \E channelType \in ChannelTypes, isRemoteRequest \in BOOLEAN, channel \in Channels :
            OnChannelOpening(channelType, isRemoteRequest, channel)
    \/ \E verdict \in BaseVerdicts : SuperOnChannelOpening(verdict)

Spec == Init /\ [][Next]_vars

\* The session-request handler with a cancellation token that may fire.
NextCancel ==
    \/ \E requestType \in RequestTypes, raw \in RawRequests :
            OnSessionRequest(requestType, raw)
    \/ \E isAuthorized \in BOOLEAN : SuperOnSessionRequest(isAuthorized)
    \/ StartExecReturn
    \/ CancelExecReturn
    \/ Cancel

SpecCancel == Init /\ [][NextCancel]_vars

\* The initiator role: calls of openChannel with every combination of arguments.
NextOpen ==
    \E channelType \in ChannelTypes, originatorIPAddress \in OriginatorAddresses,
       originatorPort \in OriginatorPorts, host \in Hosts, port \in TargetPorts,
       outcome \in OpenOutcomes :
        OpenChannel(channelType, originatorIPAddress, originatorPort, host, port, outcome)

SpecOpen == Init /\ [][NextOpen]_vars

\* ================================================================ claims

\* A grant of the table answers for the requested port.
HasGrant(ports, port) == \E g \in ports : g.localPort = port \/ g.remotePort = <<port>>

SameKey(a, b) == a.addressToBind = b.addressToBind /\ a.port = b.port

RepliedStart(e) == e.outcome = "replied" /\ e.requestType = execRequestType
RepliedCancel(e) == e.outcome = "replied" /\ e.requestType = cancelExecRequestType

\* C1: a start or cancel request that the authorization gate refuses is
\* answered with a failure message without payload; neither startExec nor
\* cancelExec is invoked for it, and the grant table and the channel
\* associations are as they were before the request.
C1_UnauthorizedFails ==
    /\ pc \in {"startExec", "cancelExec"} => args.isAuthorized
    /\ \A i \in 1..Len(handled) :
        LET e == handled[i] IN
        (e.outcome = "replied" /\ ~e.isAuthorized) =>
            /\ e.responsePromise = <<SessionRequestFailureMessage>>
            /\ e.responsePromise[1].payload = <<>>
            /\ e.called = {}
            /\ e.grantsAfter = e.grantsBefore
            /\ e.channelsAfter = e.channelsBefore

\* An unauthorized start and an unauthorized cancel have both been answered.
C1_Witness ==
    /\ \E i \in 1..Len(handled) : RepliedStart(handled[i]) /\ ~handled[i].isAuthorized
    /\ \E i \in 1..Len(handled) : RepliedCancel(handled[i]) /\ ~handled[i].isAuthorized

\* C2: an authorized, valid start request with port 0 is answered with a
\* success carrying a nonzero allocated port, and a later cancel request
\* naming that allocated port is answered with success.
C2_StartAnyPortSucceeds ==
    \A i \in 1..Len(handled) :
        LET e == handled[i] IN
        (RepliedStart(e) /\ e.isAuthorized /\ e.port = 0) =>
            /\ IsSuccessMessage(e.responsePromise[1])
            /\ e.responsePromise[1].payload # <<>>
            /\ e.responsePromise[1].payload[1] # 0
            /\ \A j \in (i + 1)..Len(handled) :
                LET c == handled[j] IN
                (/\ RepliedCancel(c) /\ c.isAuthorized
                 /\ c.addressToBind = e.addressToBind
                 /\ c.port = e.responsePromise[1].payload[1]) =>
                    IsSuccessMessage(c.responsePromise[1])

\* C3: a cancel request for a key without an active grant is answered with
\* a failure, and the grant table and the channel associations are the same
\* before and after the request.
C3_CancelWithoutGrantFails ==
    \A i \in 1..Len(handled) :
        LET e == handled[i] IN
        (RepliedCancel(e) /\ ~HasGrant(e.grantsBefore, e.port)) =>
            /\ IsFailureMessage(e.responsePromise[1])
            /\ e.grantsAfter = e.grantsBefore
            /\ e.channelsAfter = e.channelsBefore

\* C4: of two authorized start requests for the same (bindAddress, port)
\* key with no cancel for that key between them, exactly one is answered
\* with success and the other with a failure.
C4_DuplicateStartOneSuccess ==
    \A i \in 1..Len(handled), j \in 1..Len(handled) :
        LET a == handled[i]
            b == handled[j] IN
        (/\ i < j
         /\ RepliedStart(a) /\ a.isAuthorized
         /\ RepliedStart(b) /\ b.isAuthorized
         /\ SameKey(a, b)
         /\ \A k \in (i + 1)..(j - 1) :
                ~(RepliedCancel(handled[k]) /\ SameKey(handled[k], a))) =>
            \/ /\ IsSuccessMessage(a.responsePromise[1])
               /\ IsFailureMessage(b.responsePromise[1])
            \/ /\ IsFailureMessage(a.responsePromise[1])
               /\ IsSuccessMessage(b.responsePromise[1])

\* C5: a channel-open attempt whose channel type is not the forwarding
\* channel type is rejected with unknownChannelType, for a local and for a
\* remote origin, and the handler returns without reading the origin and
\* without calling the base channel-opening check.
C5_UnknownChannelType ==
    /\ pc = "super.onChannelOpening" => opening.channelType = execChannelType
    /\ (opening.returned /\ opening.channelType # execChannelType) =>
            /\ opening.failureReason = "unknownChannelType"
            /\ consulted = {}
            /\ portForwardRequest = NoVerdict

\* A locally initiated attempt with another channel type has been rejected.
C5_Witness ==
    /\ opening.returned
    /\ opening.channelType = OtherChannelType
    /\ ~opening.isRemoteRequest
    /\ opening.failureReason = "unknownChannelType"

\* C6: a remote-initiated attempt with the forwarding channel type, made
\* while remote-initiated forwarding is disabled, is rejected with
\* administrativelyProhibited and a non-empty description.
C6_RemoteDisabledProhibited ==
    (/\ opening.returned
     /\ opening.channelType = execChannelType
     /\ opening.isRemoteRequest
     /\ remoteForwardingDisabled) =>
        /\ opening.failureReason = "administrativelyProhibited"
        /\ opening.failureDescription # <<>>

\* C8: every handled session request ends with a reply; no error leaves
\* the handler.
C8_NoErrorEscapes ==
    \A i \in 1..Len(handled) :
        /\ handled[i].outcome = "replied"
        /\ handled[i].responsePromise # <<>>

\* C9: when the channel type matches and no guard of the service rejects
\* the attempt, the failure reason and description left on the original
\* request are those the base channel-opening check produced.
C9_VerdictVerbatim ==
    (opening.returned /\ "super.onChannelOpening" \in consulted) =>
        /\ opening.failureReason = portForwardRequest.failureReason
        /\ opening.failureDescription = portForwardRequest.failureDescription

\* The base check refused a remote-initiated attempt, with a description.
C9_Witness ==
    /\ opening.returned
    /\ opening.channelType = execChannelType
    /\ opening.isRemoteRequest
    /\ opening.failureReason = "connectFailed"
    /\ opening.failureDescription # <<>>
    /\ portForwardRequest.failureDescription # <<>>

\* C10: once the handler has returned, an accepted remote-initiated channel
\* is associated with a grant.
C10_AcceptedRemoteAssociated ==
    (/\ opening.returned
     /\ opening.isRemoteRequest
     /\ opening.failureReason = "none") =>
        opening.channel \in forwardedChannels

\* C12: a start request whose cancellation token fired while it was
\* suspended in the port allocation is answered, with a failure, and no
\* grant is registered for it, then or later.
C12_CancelledStartFails ==
    \A i \in 1..Len(handled) :
        LET e == handled[i] IN
        (e.requestType = execRequestType /\ e.cancelledAt = "startExec") =>
            /\ e.outcome = "replied"
            /\ IsFailureMessage(e.responsePromise[1])
            /\ e.grantsAfter = e.grantsBefore
            /\ ~HasGrant(remoteForwardedPorts, e.port)

\* A start request was cancelled during the allocation and has been answered.
C12_Witness ==
    \E i \in 1..Len(handled) :
        /\ handled[i].requestType = execRequestType
        /\ handled[i].cancelledAt = "startExec"
        /\ handled[i].outcome = "replied"

\* The handler called convertTo and got no message from it.
DecodeFailed(e) ==
    /\ IsExpectedRequestType(e.requestType)
    /\ "convertTo" \in e.reached
    /\ "super.onSessionRequest" \notin e.reached

\* C14: a session request that cannot be decoded (fields missing, or port
\* outside 0..65535) is answered with a failure reply; the decode error does
\* not leave the handler, and no grant and no channel is touched.
C14_DecodeFailureAnswered ==
    \A i \in 1..Len(handled) :
        LET e == handled[i] IN
        DecodeFailed(e) =>
            /\ e.outcome = "replied"
            /\ e.responsePromise # <<>>
            /\ IsFailureMessage(e.responsePromise[1])
            /\ e.grantsAfter = e.grantsBefore
            /\ e.channelsAfter = e.channelsBefore

\* C18: the channel-open message openChannel submits carries each argument
\* in the field the negotiator reads: channel type, originator address and
\* port (absent ones as "" and 0), target host and target port.
C18_OpenMessageCarriesArguments ==
    openCall.outcome # "" =>
        LET m == openCall.openMessage IN
        /\ m.channelType = openCall.channelType
        /\ m.originatorIPAddress =
            (IF openCall.originatorIPAddress # <<>>
             THEN openCall.originatorIPAddress[1] ELSE "")
        /\ m.originatorPort =
            (IF openCall.originatorPort # <<>> THEN openCall.originatorPort[1] ELSE 0)
        /\ m.host = openCall.host
        /\ m.port = openCall.port

\* C19: a start or cancel request whose handler returned normally has one
\* reply, a success or a failure message; a success carries a port exactly
\* when the request is a start, and the reply is a failure exactly when the
\* handler produced no success.
C19_OneReply ==
    \A i \in 1..Len(handled) :
        LET e == handled[i] IN
        (e.outcome = "replied" /\ IsExpectedRequestType(e.requestType)) =>
            /\ Len(e.responsePromise) = 1
            /\ IsSuccessMessage(e.responsePromise[1])
                    \/ e.responsePromise[1] = SessionRequestFailureMessage
            /\ IsSuccessMessage(e.responsePromise[1]) =>
                    /\ e.isAuthorized
                    /\ (e.responsePromise[1].payload # <<>>)
                            <=> (e.requestType = execRequestType)
            /\ IsFailureMessage(e.responsePromise[1]) =>
                    e.responsePromise[1].payload = <<>>

\* A cancel was answered with success and a start with a failure.
C19_Witness ==
    /\ \E i \in 1..Len(handled) :
            RepliedCancel(handled[i]) /\ IsSuccessMessage(handled[i].responsePromise[1])
    /\ \E i \in 1..Len(handled) :
            RepliedStart(handled[i]) /\ IsFailureMessage(handled[i].responsePromise[1])

\* C20: a session request whose type is neither the start nor the cancel
\* type makes the handler throw before it decodes, before the authorization
\* gate runs, before any reply is set and before any grant state changes.
C20_UnexpectedTypeThrows ==
    /\ pc \in {"super.onSessionRequest", "startExec", "cancelExec"} =>
            request.requestType \in {execRequestType, cancelExecRequestType}
    /\ \A i \in 1..Len(handled) :
        LET e == handled[i] IN
        e.requestType \notin {execRequestType, cancelExecRequestType} =>
            /\ e.outcome = "threw"
            /\ e.error = "UnexpectedRequestType"
            /\ e.reached = {}
            /\ e.called = {}
            /\ e.responsePromise = <<>>
            /\ e.grantsAfter = e.grantsBefore
            /\ e.channelsAfter = e.channelsBefore

\* A request of another type has been refused.
C20_Witness ==
    \E i \in 1..Len(handled) :
        /\ handled[i].requestType = OtherRequestType
        /\ handled[i].outcome = "threw"

====
